---- MODULE Spec2Model ----
(***************************************************************************)
(* Model of steel-series-apex: the KeyboardDevice handle (frame buffer,    *)
(* dirty flag, image encoding and the USB send protocol) of                *)
(* src/keyboard.rs, the KeyboardManager worker and its hotplug watcher of  *)
(* src/manager.rs, and the stand-alone program of src/main.rs.             *)
(***************************************************************************)
EXTENDS Integers, Sequences, FiniteSets, TLC

(***************************************************************************)
(* Bounds of the model.                                                    *)
(***************************************************************************)
\* OLED_SIZE.width and OLED_SIZE.height of the modelled keyboard type,
\* scaled down from the 128x40 of ApexProTkl.
Width == 2

Height == 2

\* Longest image handed to send_image in EncodeSpec.
MaxImageBits == 9

\* Messages sent on the manager's channel in one run.
MaxSent == 3

\* Clones of KeyboardManager::sender held by external callers.
NumProducers == 2

\* Longest hostname hostname::get returns.
MaxHostLen == 1

\* Longest device list context.devices() returns in ResolveSpec.
MaxDevices == 3

(***************************************************************************)
(* Program constants.                                                      *)
(***************************************************************************)
\* ApexProTkl::OLED_SIZE
ApexProTklWidth == 128

ApexProTklHeight == 40

\* The tag byte send_image stores in front of the image: 0x65.
OledTag == 101

\* rusb::request_type(Out, Class, Interface), asserted to be 0x21.
request_type == 33

\* let request = 0x09
request == 9

\* vendor_id: 0x1038
VENDOR_ID == 4152

\* product_id: 0x1614
PRODUCT_ID == 5652

VARIABLES
    keyboard,   \* the KeyboardDevice in use: [frame_buffer, screen_dirty]
    last,       \* the last operation on it: its arguments, result and USB calls
    prev,       \* when the last operation is a flush_screen: the one before it
    image,      \* EncodeSpec: the bit slice handed to send_image
    devices,    \* ResolveSpec: the list context.devices() returns
    resolved,   \* ResolveSpec: the outcome of KeyboardDevice::new on it
    program,    \* which program runs: "manager" (manager.rs), "main" (main.rs), "none"
    overflow_checks, \* whether the build panics on integer overflow
    attached,   \* the USB devices plugged in
    registered, \* the hotplug watchers registered with the USB context
    queue,      \* the channel: messages sent and not yet received
    sent,       \* every message sent successfully, in send order
    handled,    \* the messages handle_message was called with, in order
    worker,     \* the manager's thread: "running", "exited", "panicked", "none"
    ext_senders, \* clones of the sender alive outside the manager
    main_pc,    \* the main thread of main.rs: "start", "events", "exited", "none"
    redraw      \* the last attempt to draw the screen, by any thread

devvars == <<keyboard, last, prev>>

\* The arguments and results of the functions checked on their own.
funvars == <<image, devices, resolved>>

sysvars == <<program, overflow_checks, attached, registered, queue, sent, handled,
             worker, ext_senders, main_pc, redraw>>

(***************************************************************************)
(* Bits and bytes (bitvec, Msb0 order over u8).                            *)
(***************************************************************************)
RECURSIVE Pow2(_)
Pow2(n) == IF n = 0 THEN 1 ELSE 2 * Pow2(n - 1)

Bit(b) == IF b THEN 1 ELSE 0

\* The eight bits of a u8, most significant first (BitField::store on a
\* Msb0 slice that spans exactly one byte).
store(v) == [i \in 1..8 |-> ((v \div Pow2(8 - i)) % 2) = 1]

\* Number of u8 elements that hold nbits bits.
elements(nbits) == (nbits + 7) \div 8

\* RawByte with the bits of each element in Lsb0 order.
RawByteLsb0(bits, k) ==
    LET b(j) == IF 8 * (k - 1) + j <= Len(bits) THEN Bit(bits[8 * (k - 1) + j]) ELSE 0
    IN  b(8) * 128 + b(7) * 64 + b(6) * 32 + b(5) * 16
          + b(4) * 8 + b(3) * 4 + b(2) * 2 + b(1)

\* The k-th element of the storage of a bit vector: bit 8(k-1)+j of the
\* vector is bit 8-j of the byte; positions past the end of the vector are
\* zero (resize(_, false) over zero-initialised storage).
RawByte(bits, k) ==
    LET b(j) == IF 8 * (k - 1) + j <= Len(bits) THEN Bit(bits[8 * (k - 1) + j]) ELSE 0
    IN  b(1) * 128 + b(2) * 64 + b(3) * 32 + b(4) * 16
          + b(5) * 8 + b(6) * 4 + b(7) * 2 + b(8)

as_raw_slice(bits) == [k \in 1..elements(Len(bits)) |-> RawByte(bits, k)]

(***************************************************************************)
(* KeyboardCommand                                                         *)
(***************************************************************************)
Oled == [kind |-> "Oled", index |-> 0]

Colors == [kind |-> "Colors", index |-> 0]

Config(i) == [kind |-> "Config", index |-> i]

\* value with the Oled arm returning the value of Config.
valueOledAsConfig(cmd) ==
    CASE cmd.kind = "Colors" -> 768
      [] cmd.kind = "Config" -> 512
      [] cmd.kind = "Oled" -> 512

value(cmd) ==
    CASE cmd.kind = "Colors" -> 768
      [] cmd.kind = "Config" -> 512
      [] cmd.kind = "Oled" -> 768

index(cmd) ==
    CASE cmd.kind = "Colors" -> 1
      [] cmd.kind = "Config" -> cmd.index
      [] cmd.kind = "Oled" -> 1

(***************************************************************************)
(* KeyboardDevice::send.  The USB stack is the environment: topo is the    *)
(* device's list of interface counts, one per configuration; fail is the   *)
(* number of the call before the transfer that errors (0: none); wr is the *)
(* outcome of write_control: -1 for an error, else the bytes written.      *)
(* Each call is logged with what it returned: -1 for an error, the number  *)
(* of configurations for device_descriptor, the number of interfaces for   *)
(* config_descriptor, the bytes written for write_control, else 0.         *)
(***************************************************************************)
Call(name, a, b, ret) ==
    [call |-> name, cfg |-> a, iface |-> b, ret |-> ret, setup |-> <<>>, buf |-> <<>>]

RECURSIVE ClaimsInterfaceOneOnly(_, _)
\* Claims that claims interface 1 of each configuration and no other.
ClaimsInterfaceOneOnly(topo, c) ==
    IF c > Len(topo) THEN <<>>
    ELSE <<Call("config_descriptor", c - 1, 0, topo[c])>>
           \o <<Call("claim_interface", c - 1, 1, 0)>>
           \o ClaimsInterfaceOneOnly(topo, c + 1)

RECURSIVE Claims(_, _)
\* The calls of the two nested loops over configurations c..n and their
\* interfaces.
Claims(topo, c) ==
    IF c > Len(topo) THEN <<>>
    ELSE <<Call("config_descriptor", c - 1, 0, topo[c])>>
           \o [i \in 1..topo[c] |-> Call("claim_interface", c - 1, i - 1, 0)]
           \o Claims(topo, c + 1)

\* Every call send makes before the control transfer, in program order.
Preamble(topo) ==
    <<Call("open", 0, 0, 0), Call("set_auto_detach_kernel_driver", 0, 0, 0),
      Call("device_descriptor", 0, 0, Len(topo))>> \o Claims(topo, 1)

\* The calls made when call number fail returns an error: the `?` returns
\* from send right there.
FailAt(pre, fail) ==
    SubSeq(pre, 1, fail - 1) \o <<[pre[fail] EXCEPT !.ret = -1]>>

WriteControl(cmd, buf, wr) ==
    [call |-> "write_control", cfg |-> 0, iface |-> 0, ret |-> wr,
     setup |-> <<request_type, request, value(cmd), index(cmd)>>, buf |-> buf]

\* Number of control transfers among the USB calls of an operation.
Sent(usb) == Cardinality({i \in 1..Len(usb) : usb[i].call = "write_control"})

\* saturating_sub with its operands exchanged.
saturating_subExchanged(a, b) == IF b >= a THEN b - a ELSE 0

saturating_sub(a, b) == IF a >= b THEN a - b ELSE 0

send(cmd, buf, topo, fail, wr) ==
    LET pre == Preamble(topo) IN
    IF fail > 0 /\ fail <= Len(pre)
    THEN [res |-> "Err", usb |-> FailAt(pre, fail)]
    ELSE LET usb == Append(pre, WriteControl(cmd, buf, wr)) IN
         IF wr < 0 THEN [res |-> "Err", usb |-> usb]
         ELSE LET remaining_bytes == saturating_sub(Len(buf), wr) IN
              IF remaining_bytes = 0
              THEN [res |-> "Ok", usb |-> usb]
              ELSE [res |-> "Err", usb |-> usb]

send_image(image_data, topo, fail, wr) ==
    LET io_buf == store(OledTag) \o image_data
        buf == as_raw_slice(io_buf)
    IN  send(Oled, buf, topo, fail, wr)

(***************************************************************************)
(* KeyboardDevice                                                          *)
(***************************************************************************)
screen_area == Width * Height

\* NewDevice with the frame buffer one bit short.
NewDeviceShort ==
    [frame_buffer |-> [i \in 1..(screen_area - 1) |-> FALSE], screen_dirty |-> TRUE]

\* NewDevice with the dirty flag off.
NewDeviceClean ==
    [frame_buffer |-> [i \in 1..screen_area |-> FALSE], screen_dirty |-> FALSE]

\* The handle KeyboardDevice::new builds once a device was found.
NewDevice ==
    [frame_buffer |-> [i \in 1..screen_area |-> FALSE], screen_dirty |-> TRUE]

\* flush_screen that clears screen_dirty before it knows the send succeeded.
flush_screenClearsFirst(self, topo, fail, wr) ==
    IF self.screen_dirty
    THEN LET r == send_image(self.frame_buffer, topo, fail, wr) IN
         [self |-> [self EXCEPT !.screen_dirty = FALSE], res |-> r.res, usb |-> r.usb]
    ELSE [self |-> self, res |-> "Ok", usb |-> <<>>]

\* flush_screen without the assignment screen_dirty = false.
flush_screenKeepsDirty(self, topo, fail, wr) ==
    IF self.screen_dirty
    THEN LET r == send_image(self.frame_buffer, topo, fail, wr) IN
         [self |-> self, res |-> r.res, usb |-> r.usb]
    ELSE [self |-> self, res |-> "Ok", usb |-> <<>>]

flush_screen(self, topo, fail, wr) ==
    IF self.screen_dirty
    THEN LET r == send_image(self.frame_buffer, topo, fail, wr) IN
         IF r.res = "Ok"
         THEN [self |-> [self EXCEPT !.screen_dirty = FALSE], res |-> "Ok", usb |-> r.usb]
         ELSE [self |-> self, res |-> "Err", usb |-> r.usb]
    ELSE [self |-> self, res |-> "Ok", usb |-> <<>>]

\* PixelIndex in column-major order.
PixelIndexColumnMajor(x, y) == y + x * Height

\* The linear index of pixel (x, y); the frame buffer is indexed from 1 here.
PixelIndex(x, y) == x + y * Width

\* draw_pixel with the upper range check off by one.
draw_pixelOffByOne(self, x, y, color) ==
    IF x < 0 \/ y < 0 THEN [self |-> self, res |-> "Ok"]
    ELSE IF x > Width \/ y > Height THEN [self |-> self, res |-> "Ok"]
    ELSE LET p == x + y * Width IN
         IF p + 1 > Len(self.frame_buffer)
         THEN [self |-> self, res |-> "Err"]
         ELSE [self |-> [self EXCEPT !.frame_buffer[p + 1] = color], res |-> "Ok"]

draw_pixel(self, x, y, color) ==
    IF x < 0 \/ y < 0 THEN [self |-> self, res |-> "Ok"]
    ELSE IF x >= Width \/ y >= Height THEN [self |-> self, res |-> "Ok"]
    ELSE LET p == PixelIndex(x, y) IN
         IF p + 1 > Len(self.frame_buffer)
         THEN [self |-> self, res |-> "Err"]
         ELSE [self |-> [self EXCEPT !.frame_buffer[p + 1] = color], res |-> "Ok"]

(***************************************************************************)
(* USB devices, enumeration and hotplug filters.                           *)
(***************************************************************************)
keyboard_info == [vendor_id |-> VENDOR_ID, product_id |-> PRODUCT_ID]

\* The target keyboard, and a device whose identifiers are the keyboard's
\* the other way round.
Keyboard == [vendor |-> VENDOR_ID, product |-> PRODUCT_ID]

Swapped == [vendor |-> PRODUCT_ID, product |-> VENDOR_ID]

UsbDevices == {Keyboard, Swapped}

Entry(d, readable) == [vendor |-> d.vendor, product |-> d.product, readable |-> readable]

\* context.devices() of the attached devices, in bus order.
DeviceList(att) ==
    (IF Swapped \in att THEN <<Entry(Swapped, TRUE)>> ELSE <<>>)
      \o (IF Keyboard \in att THEN <<Entry(Keyboard, TRUE)>> ELSE <<>>)

RECURSIVE FirstMatchErrorFatal(_, _)
\* FirstMatch giving up at the first entry whose descriptor cannot be read.
FirstMatchErrorFatal(devs, i) ==
    IF i > Len(devs) THEN 0
    ELSE IF ~devs[i].readable THEN 0
    ELSE IF devs[i].product = keyboard_info.product_id
              /\ devs[i].vendor = keyboard_info.vendor_id
         THEN i
         ELSE FirstMatchErrorFatal(devs, i + 1)

RECURSIVE FirstMatch(_, _)
\* The map / filter_map / next chain of KeyboardDevice::new from entry i on:
\* the position of the first entry whose descriptor is readable and has the
\* product and vendor identifiers of the keyboard, 0 when there is none.
FirstMatch(devs, i) ==
    IF i > Len(devs) THEN 0
    ELSE IF ~devs[i].readable THEN FirstMatch(devs, i + 1)
    ELSE IF devs[i].product = keyboard_info.product_id
              /\ devs[i].vendor = keyboard_info.vendor_id
         THEN i
         ELSE FirstMatch(devs, i + 1)

NoDevice == [frame_buffer |-> <<>>, screen_dirty |-> FALSE]

\* KeyboardDevice::new; list_ok is whether context.devices() succeeds.  The
\* error is the message of the anyhow error returned.
KeyboardDevice_new(devs, list_ok) ==
    IF ~list_ok
    THEN [res |-> "Err", error |-> "Getting list of devices", dev |-> 0,
          self |-> NoDevice]
    ELSE LET i == FirstMatch(devs, 1) IN
         IF i = 0
         THEN [res |-> "Err", error |-> "Could not find keyboard", dev |-> 0,
               self |-> NoDevice]
         ELSE [res |-> "Ok", error |-> "", dev |-> i, self |-> NewDevice]

\* The filters the two watchers are registered with: register_callback takes
\* the vendor identifier first and the product identifier second.
ManagerFilter ==
    [vendor |-> keyboard_info.vendor_id, product |-> keyboard_info.product_id]

MainFilter ==
    [vendor |-> keyboard_info.product_id, product |-> keyboard_info.vendor_id]

\* The filter a registered watcher carries.
FilterOf(w) == IF w = "manager" THEN ManagerFilter ELSE MainFilter

Matches(filter, d) == filter.vendor = d.vendor /\ filter.product = d.product

(***************************************************************************)
(* The drawing collaborators, over a font scaled down to the model's       *)
(* display: every pixel of a character cell is on.                         *)
(***************************************************************************)
Font12x16 == [width |-> 1, height |-> 1, spacing |-> 0, variable_width |-> FALSE]

Px(x, y) == [x |-> x, y |-> y]

\* The pixels Text::new(s, Point(0, 0)) draws for a string of n characters.
TextPixels(n) ==
    [k \in 1..(n * Font12x16.width * Font12x16.height) |->
        Px((k - 1) % (n * Font12x16.width), (k - 1) \div (n * Font12x16.width))]

\* The pixels of Line::new(Point(0, h), Point(w, h)), both ends included.
LinePixels(w) == [k \in 1..(w + 1) |-> Px(k - 1, Font12x16.height)]

RECURSIVE DrawAll(_, _, _)
\* Drawable::draw: draw_pixel for each pixel in turn, stopping at an error.
DrawAll(self, pixels, i) ==
    IF i > Len(pixels) THEN [self |-> self, res |-> "Ok"]
    ELSE LET r == draw_pixel(self, pixels[i].x, pixels[i].y, TRUE) IN
         IF r.res = "Err" THEN r ELSE DrawAll(r.self, pixels, i + 1)

\* The modulus of the unsigned arithmetic of str_width: u32 scaled down to
\* sixteen bits, the model checker's integers being 32 bits wide.
U32 == Pow2(16)

\* FontExt::str_width over u32; checks is whether the build panics on
\* overflow (else the arithmetic wraps, which wrapped reports).
str_width(len, checks) ==
    LET char_widths == len * Font12x16.width
        diff == len - 1
        space_widths == (diff % U32) * Font12x16.spacing
        total == char_widths + space_widths
        overflow == diff < 0 \/ space_widths >= U32 \/ total >= U32
    IN  IF checks /\ overflow
        THEN [panic |-> TRUE, wrapped |-> FALSE, value |-> 0]
        ELSE [panic |-> FALSE, wrapped |-> overflow,
              value |-> ((space_widths % U32) + char_widths) % U32]

(***************************************************************************)
(* Redrawing the screen.  A redraw is summarised by the thread that ran    *)
(* it, the stage it reached, its result, the USB calls it made and the     *)
(* control transfers among them, whether str_width wrapped around, and the *)
(* handle it ended with.                                                   *)
(***************************************************************************)
Attempt(stage, res, n, kb) ==
    [stage |-> stage, res |-> res, calls |-> 0, sent |-> n, wrapped |-> FALSE,
     kb |-> kb]

\* The attempt that got as far as flush_screen.
Flushed(f, wrapped) ==
    [stage |-> "flush", res |-> f.res, calls |-> Len(f.usb), sent |-> Sent(f.usb),
     wrapped |-> wrapped, kb |-> f.self]

\* Outcomes of hostname::get() and to_str().
Hostnames ==
    {[kind |-> "Err", len |-> 0], [kind |-> "Invalid", len |-> 0]}
      \cup {[kind |-> "Ok", len |-> n] : n \in 0..MaxHostLen}

\* Outcomes of the USB stack during the send of a redraw.
RedrawEnvs ==
    {[topo |-> <<2, 1>>, fail |-> 1, wr |-> -1]}
      \cup {[topo |-> <<2, 1>>, fail |-> 0, wr |-> w] :
                w \in {-1, 0, elements(8 + screen_area)}}

\* KeyboardManager::draw_screen
draw_screen(devs, list_ok, host, env, checks) ==
    LET k == KeyboardDevice_new(devs, list_ok) IN
    IF k.res = "Err" THEN Attempt("new", "Err", 0, NoDevice)
    ELSE IF host.kind # "Ok" THEN Attempt("hostname", "Err", 0, k.self)
    ELSE LET t == DrawAll(k.self, TextPixels(host.len), 1) IN
    IF t.res = "Err" THEN Attempt("text", "Err", 0, t.self)
    ELSE LET w == str_width(host.len, checks) IN
    IF w.panic THEN Attempt("str_width", "Panic", 0, t.self)
    ELSE LET l == DrawAll(t.self, LinePixels(w.value), 1) IN
    IF l.res = "Err" THEN Attempt("line", "Err", 0, l.self)
    ELSE LET f == flush_screen(l.self, env.topo, env.fail, env.wr) IN
         Flushed(f, w.wrapped)

\* The closure of main's KeyboardWatcher::device_arrived, and the same
\* statements at the start of main.
main_draw(devs, list_ok, host, env) ==
    LET k == KeyboardDevice_new(devs, list_ok) IN
    IF k.res = "Err" THEN Attempt("new", "Err", 0, NoDevice)
    ELSE IF host.kind # "Ok" THEN Attempt("hostname", "Err", 0, k.self)
    ELSE LET t == DrawAll(k.self, TextPixels(host.len), 1) IN
    IF t.res = "Err" THEN Attempt("text", "Err", 0, t.self)
    ELSE LET f == flush_screen(t.self, env.topo, env.fail, env.wr) IN
         Flushed(f, FALSE)

\* handle_message that redraws on DeviceLeft as well.
handle_messageRedrawsOnLeft(message, devs, list_ok, host, env, checks) ==
    [redraws |-> 1, r |-> draw_screen(devs, list_ok, host, env, checks)]

\* KeyboardManager::handle_message: the redraws it attempted and the
\* outcome of the last one.
handle_message(message, devs, list_ok, host, env, checks) ==
    CASE message = "DeviceArrived" ->
            [redraws |-> 1, r |-> draw_screen(devs, list_ok, host, env, checks)]
      [] message = "DeviceLeft" ->
            [redraws |-> 0, r |-> Attempt("none", "Ok", 0, NoDevice)]
      [] message = "RefreshScreen" ->
            [redraws |-> 1, r |-> draw_screen(devs, list_ok, host, env, checks)]

(***************************************************************************)
(* The channel, the hotplug watchers, the manager's worker thread and the  *)
(* main thread of main.rs.                                                 *)
(***************************************************************************)
Messages == {"DeviceArrived", "DeviceLeft", "RefreshScreen"}

Redraw(ctx, a) ==
    [ctx |-> ctx, stage |-> a.stage, res |-> a.res, calls |-> a.calls,
     sent |-> a.sent, wrapped |-> a.wrapped, kb |-> a.kb]

NoRedraw == Redraw("none", Attempt("none", "Ok", 0, NoDevice))

\* The state in which neither program runs.
SysIdle ==
    /\ program = "none" /\ overflow_checks = FALSE
    /\ attached = {} /\ registered = {}
    /\ queue = <<>> /\ sent = <<>> /\ handled = <<>>
    /\ worker = "none" /\ ext_senders = 0 /\ main_pc = "none"
    /\ redraw = NoRedraw

\* Sender::send: fails once the receiver is gone.
channel_send(q, receiver_alive, m) ==
    IF receiver_alive THEN [res |-> "Ok", queue |-> Append(q, m)]
    ELSE [res |-> "Err", queue |-> q]

\* The senders of the channel that are alive: the external clones, the
\* sender field of the KeyboardManager the worker owns, and the watcher's
\* clone, owned by the registration the same KeyboardManager holds.
Senders ==
    ext_senders
      + (IF worker = "running" THEN 1 ELSE 0)
      + (IF "manager" \in registered THEN 1 ELSE 0)

\* Receiver::recv: a message, an error once the queue is empty and every
\* sender is gone, or else still blocked.
recv(q, senders) ==
    IF q # <<>> THEN [res |-> "Ok", msg |-> Head(q)]
    ELSE IF senders = 0 THEN [res |-> "Err", msg |-> "none"]
    ELSE [res |-> "Blocked", msg |-> "none"]

Post(m) ==
    LET r == channel_send(queue, worker = "running", m) IN
    /\ queue' = r.queue
    /\ sent' = IF r.res = "Ok" THEN Append(sent, m) ELSE sent

Arrive(d) == d \notin attached /\ attached' = attached \cup {d}

Leave(d) == d \in attached /\ attached' = attached \ {d}

\* KeyboardWatcher::device_arrived of manager.rs
ManagerDeviceArrived ==
    \E d \in UsbDevices :
        /\ "manager" \in registered /\ Matches(ManagerFilter, d)
        /\ Len(sent) < MaxSent
        /\ Arrive(d)
        /\ Post("DeviceArrived")
        /\ UNCHANGED <<devvars, funvars, program, overflow_checks, registered, handled,
                       worker, ext_senders, main_pc, redraw>>

\* KeyboardWatcher::device_left of manager.rs
ManagerDeviceLeft ==
    \E d \in UsbDevices :
        /\ "manager" \in registered /\ Matches(ManagerFilter, d)
        /\ Len(sent) < MaxSent
        /\ Leave(d)
        /\ Post("DeviceLeft")
        /\ UNCHANGED <<devvars, funvars, program, overflow_checks, registered, handled,
                       worker, ext_senders, main_pc, redraw>>

\* KeyboardWatcher::device_arrived of main.rs, called from handle_events
MainDeviceArrived ==
    \E d \in UsbDevices :
        /\ "main" \in registered /\ Matches(MainFilter, d)
        /\ Arrive(d)
        /\ \E list_ok \in BOOLEAN, host \in Hostnames, env \in RedrawEnvs :
             redraw' = Redraw("callback", main_draw(DeviceList(attached'), list_ok, host, env))
        /\ UNCHANGED <<devvars, funvars, program, overflow_checks, registered, queue, sent,
                       handled, worker, ext_senders, main_pc>>

\* KeyboardWatcher::device_left of main.rs
MainDeviceLeft ==
    \E d \in UsbDevices :
        /\ "main" \in registered /\ Matches(MainFilter, d)
        /\ Leave(d)
        /\ UNCHANGED <<devvars, funvars, program, overflow_checks, registered, queue, sent,
                       handled, worker, ext_senders, main_pc, redraw>>

\* A device comes or goes that no registered watcher is filtered for.
Unwatched ==
    \E d \in UsbDevices :
        /\ program # "none"
        /\ ~("manager" \in registered /\ Matches(ManagerFilter, d))
        /\ ~("main" \in registered /\ Matches(MainFilter, d))
        /\ (Arrive(d) \/ Leave(d))
        /\ UNCHANGED <<devvars, funvars, program, overflow_checks, registered, queue, sent,
                       handled, worker, ext_senders, main_pc, redraw>>

\* An external caller sends a message through its clone of the sender.
ExtSend ==
    \E m \in Messages :
        /\ ext_senders > 0
        /\ Len(sent) < MaxSent
        /\ Post(m)
        /\ UNCHANGED <<devvars, funvars, program, overflow_checks, attached, registered,
                       handled, worker, ext_senders, main_pc, redraw>>

\* An external caller drops its clone of the sender.
ExtDrop ==
    /\ ext_senders > 0
    /\ ext_senders' = ext_senders - 1
    /\ UNCHANGED <<devvars, funvars, program, overflow_checks, attached, registered, queue,
                   sent, handled, worker, main_pc, redraw>>

\* One turn of the loop of KeyboardManager::spawn: recv, then handle_message
\* or break.  A panic unwinds the thread and drops the KeyboardManager: its
\* receiver with the messages still queued, and its registration.
Worker ==
    /\ worker = "running"
    /\ LET got == recv(queue, Senders) IN
       /\ got.res # "Blocked"
       /\ IF got.res = "Err"
          THEN /\ worker' = "exited"
               /\ registered' = registered \ {"manager"}
               /\ UNCHANGED <<queue, handled, redraw>>
          ELSE \E list_ok \in BOOLEAN, host \in Hostnames, env \in RedrawEnvs :
                 LET h == handle_message(got.msg, DeviceList(attached), list_ok,
                                         host, env, overflow_checks)
                 IN  /\ handled' = Append(handled,
                            [msg |-> got.msg, redraws |-> h.redraws])
                     /\ redraw' = IF h.redraws > 0 THEN Redraw("worker", h.r) ELSE redraw
                     /\ IF h.r.res = "Panic"
                        THEN /\ worker' = "panicked"
                             /\ queue' = <<>>
                             /\ registered' = registered \ {"manager"}
                        ELSE /\ worker' = "running"
                             /\ queue' = Tail(queue)
                             /\ UNCHANGED registered
    /\ UNCHANGED <<devvars, funvars, program, overflow_checks, attached, sent, ext_senders,
                   main_pc>>

\* main.rs up to its event loop: find the keyboard, draw the hostname, flush,
\* register the watcher; any error ends the process.
MainStartup ==
    /\ main_pc = "start"
    /\ \E list_ok \in BOOLEAN, host \in Hostnames, env \in RedrawEnvs, reg_ok \in BOOLEAN :
         LET a == main_draw(DeviceList(attached), list_ok, host, env) IN
         /\ redraw' = Redraw("main", a)
         /\ IF a.res = "Ok" /\ reg_ok
            THEN main_pc' = "events" /\ registered' = {"main"}
            ELSE main_pc' = "exited" /\ UNCHANGED registered
    /\ UNCHANGED <<devvars, funvars, program, overflow_checks, attached, queue, sent, handled,
                   worker, ext_senders>>

\* context.handle_events fails: main returns and drops the registration.
MainEventsError ==
    /\ main_pc = "events"
    /\ main_pc' = "exited"
    /\ registered' = {}
    /\ UNCHANGED <<devvars, funvars, program, overflow_checks, attached, queue, sent, handled,
                   worker, ext_senders, redraw>>

(***************************************************************************)
(* A client of one KeyboardDevice: after KeyboardDevice::new it draws      *)
(* pixels through the DrawTarget contract and flushes, in any order (the   *)
(* way main and draw_screen use the handle).                               *)
(***************************************************************************)
\* The device topologies the USB stack may report.
Topologies == {<<1>>, <<2, 1>>}

\* What the USB stack may do during one send of a buffer of n bytes: an
\* error in a call before the transfer, or the transfer failing or writing
\* 0..n bytes.
SendEnvs(n) ==
    UNION {{[topo |-> t, fail |-> f, wr |-> -1] : f \in 1..Len(Preamble(t))}
              \cup {[topo |-> t, fail |-> 0, wr |-> w] : w \in -1..n} : t \in Topologies}

Op(name, x, y, color, res, usb) ==
    [op |-> name, x |-> x, y |-> y, color |-> color, res |-> res, usb |-> usb]

Summary(l) == [op |-> l.op, res |-> l.res, sent |-> Sent(l.usb)]

NoPrev == [op |-> "none", res |-> "Ok", sent |-> 0]

\* KeyboardDevice::new was not called yet.
NoResolution ==
    [op |-> "none", list_ok |-> TRUE, res |-> "Ok", error |-> "", dev |-> 0,
     self |-> NoDevice]

NoResolve == devices = <<>> /\ resolved = NoResolution

DevInit ==
    /\ keyboard = NewDevice
    /\ last = Op("new", 0, 0, FALSE, "Ok", <<>>)
    /\ prev = NoPrev

Init ==
    /\ DevInit
    /\ image = <<>>
    /\ NoResolve
    /\ SysIdle

DrawPixel ==
    \E x \in -1..Width, y \in -1..Height, color \in BOOLEAN :
        LET r == draw_pixel(keyboard, x, y, color) IN
        /\ keyboard' = r.self
        /\ last' = Op("draw_pixel", x, y, color, r.res, <<>>)
        /\ prev' = NoPrev
        /\ UNCHANGED <<funvars, sysvars>>

FlushScreen ==
    \E env \in SendEnvs(elements(8 + screen_area)) :
        LET r == flush_screen(keyboard, env.topo, env.fail, env.wr) IN
        /\ keyboard' = r.self
        /\ last' = Op("flush_screen", 0, 0, FALSE, r.res, r.usb)
        /\ prev' = Summary(last)
        /\ UNCHANGED <<funvars, sysvars>>

Next == DrawPixel \/ FlushScreen

vars == <<keyboard, last, prev, image, devices, resolved, sysvars>>

Spec == Init /\ [][Next]_vars

(***************************************************************************)
(* send_image as a function of its argument: every bit slice of up to      *)
(* MaxImageBits bits is encoded and sent once.                             *)
(***************************************************************************)
Images == UNION {[1..n -> BOOLEAN] : n \in 0..MaxImageBits}

EncodeInit ==
    /\ image \in Images
    /\ keyboard = NewDevice
    /\ last = Op("none", 0, 0, FALSE, "Ok", <<>>)
    /\ prev = NoPrev
    /\ NoResolve
    /\ SysIdle

SendImage ==
    /\ last.op = "none"
    /\ \E env \in SendEnvs(elements(8 + Len(image))) :
           LET r == send_image(image, env.topo, env.fail, env.wr) IN
           /\ last' = Op("send_image", 0, 0, FALSE, r.res, r.usb)
           /\ UNCHANGED <<keyboard, prev, funvars, sysvars>>

EncodeNext == SendImage

EncodeSpec == EncodeInit /\ [][EncodeNext]_vars

(***************************************************************************)
(* KeyboardDevice::new as a function of the enumerated devices: every list *)
(* of up to MaxDevices entries is resolved once.  An entry is a device's   *)
(* identifiers and whether its descriptor can be read.                     *)
(***************************************************************************)
DeviceIds == {VENDOR_ID, PRODUCT_ID}

Entries ==
    {[vendor |-> v, product |-> p, readable |-> r] :
        v \in DeviceIds, p \in DeviceIds, r \in BOOLEAN}

DeviceLists == UNION {[1..n -> Entries] : n \in 0..MaxDevices}

ResolveInit ==
    /\ devices \in DeviceLists
    /\ resolved = NoResolution
    /\ keyboard = NoDevice
    /\ last = Op("none", 0, 0, FALSE, "Ok", <<>>)
    /\ prev = NoPrev
    /\ image = <<>>
    /\ SysIdle

Resolve ==
    /\ resolved.op = "none"
    /\ \E list_ok \in BOOLEAN :
           LET r == KeyboardDevice_new(devices, list_ok) IN
           resolved' = [op |-> "new", list_ok |-> list_ok, res |-> r.res,
                        error |-> r.error, dev |-> r.dev, self |-> r.self]
    /\ UNCHANGED <<devvars, image, devices, sysvars>>

ResolveNext == Resolve

ResolveSpec == ResolveInit /\ [][ResolveNext]_vars

(***************************************************************************)
(* The running system: either the manager of manager.rs, right after       *)
(* KeyboardManager::new and spawn, or the program of main.rs at its start. *)
(***************************************************************************)
ManagerInit ==
    /\ keyboard = NoDevice
    /\ last = Op("none", 0, 0, FALSE, "Ok", <<>>)
    /\ prev = NoPrev
    /\ image = <<>>
    /\ NoResolve
    /\ program \in {"manager", "main"}
    /\ overflow_checks \in BOOLEAN
    /\ attached \in SUBSET UsbDevices
    /\ queue = <<>> /\ sent = <<>> /\ handled = <<>>
    /\ redraw = NoRedraw
    /\ IF program = "manager"
       THEN /\ registered = {"manager"} /\ worker = "running"
            /\ ext_senders = NumProducers /\ main_pc = "none"
       ELSE /\ registered = {} /\ worker = "none"
            /\ ext_senders = 0 /\ main_pc = "start"

ManagerNext ==
    \/ ManagerDeviceArrived
    \/ ManagerDeviceLeft
    \/ MainDeviceArrived
    \/ MainDeviceLeft
    \/ Unwatched
    \/ ExtSend
    \/ ExtDrop
    \/ Worker
    \/ MainStartup
    \/ MainEventsError

ManagerSpec == ManagerInit /\ [][ManagerNext]_vars

\* The scheduler runs the worker thread whenever it can take a step.
FairManagerSpec == ManagerSpec /\ WF_vars(Worker)

(***************************************************************************)
(* Claims                                                                  *)
(***************************************************************************)
InRange(x, y) == x >= 0 /\ y >= 0 /\ x < Width /\ y < Height

\* C1: an in-range set_pixel (draw_pixel) always leaves the dirty flag
\* true, also right after a successful flush.
C1_SetPixelMarksDirty ==
    (last.op = "draw_pixel" /\ InRange(last.x, last.y)) => keyboard.screen_dirty

\* C2: draw_pixel with x < 0, y < 0, x >= width or y >= height returns Ok
\* and changes neither a bit of the frame buffer nor the dirty flag.
C2_OutOfRangeNoOp ==
    [][(last'.op = "draw_pixel" /\ ~InRange(last'.x, last'.y))
         => (keyboard' = keyboard /\ last'.res = "Ok")]_vars

C2_Witness ==
    /\ last.op = "draw_pixel" /\ ~InRange(last.x, last.y) /\ last.color
    /\ \E i \in 1..screen_area : keyboard.frame_buffer[i]
    /\ \E i \in 1..screen_area : ~keyboard.frame_buffer[i]

\* C3: after an in-range draw_pixel(x, y, on) the bit at linear index
\* x + y*width equals on and every other bit is unchanged.
C3_InRangeSetsBit ==
    [][(last'.op = "draw_pixel" /\ InRange(last'.x, last'.y))
         => /\ last'.res = "Ok"
            /\ Len(keyboard'.frame_buffer) = Len(keyboard.frame_buffer)
            /\ \A i \in 0..(Width * Height - 1) :
                 keyboard'.frame_buffer[i + 1] =
                    IF i = last'.x + last'.y * Width
                    THEN last'.color
                    ELSE keyboard.frame_buffer[i + 1]]_vars

C3_Witness ==
    /\ last.op = "draw_pixel" /\ last.x = 1 /\ last.y = 1 /\ ~last.color
    /\ ~keyboard.frame_buffer[1 + 1 + Width]
    /\ keyboard.frame_buffer[1 + Width]

\* C4: a flush_screen right after a successful flush_screen issues no
\* control transfer and returns Ok, so the two calls together issue exactly
\* the one transfer of the first.
C4_FlushIdempotent ==
    (prev.op = "flush_screen" /\ prev.res = "Ok" /\ last.op = "flush_screen")
        => (last.usb = <<>> /\ last.res = "Ok" /\ prev.sent + Sent(last.usb) <= 1
            /\ ~keyboard.screen_dirty)

C4_Witness ==
    /\ prev.op = "flush_screen" /\ prev.res = "Ok" /\ prev.sent = 1
    /\ last.op = "flush_screen" /\ last.res = "Ok"

\* Bit i (from 0) of the packed data that follows the tag byte, unpacked
\* most significant bit first.
UnpackBit(buf, i) == ((buf[2 + (i \div 8)] \div Pow2(7 - (i % 8))) % 2) = 1

Transfers(usb) == {i \in 1..Len(usb) : usb[i].call = "write_control"}

\* C9: the payload send_image builds starts with 0x65, and unpacking the
\* rest MSB-first gives back the image bit for bit (padding ignored).
C9_EncodingRoundTrip ==
    \A t \in Transfers(last.usb) :
        last.op = "send_image" =>
            /\ last.usb[t].buf[1] = 101
            /\ \A i \in 0..(Len(image) - 1) : UnpackBit(last.usb[t].buf, i) = image[i + 1]

C9_Witness ==
    /\ last.op = "send_image" /\ Transfers(last.usb) # {}
    /\ Len(image) = 9 /\ image[9] /\ ~image[1] /\ image[2] /\ ~image[8]

CeilDiv(a, b) == IF a % b = 0 THEN a \div b ELSE (a \div b) + 1

\* C10: every control transfer of a flush has request type 0x21, request
\* 0x09, value 0x0300, index 0x0001 and a payload of 1 + ceil(width*height/8)
\* bytes that starts with 0x65; that is 641 bytes for the 128x40 display.
C10_WireFormat ==
    /\ \A t \in Transfers(last.usb) :
          last.op = "flush_screen" =>
            /\ last.usb[t].setup = <<33, 9, 768, 1>>
            /\ Len(last.usb[t].buf) = 1 + CeilDiv(Width * Height, 8)
            /\ last.usb[t].buf[1] = 101
    /\ elements(8 + ApexProTklWidth * ApexProTklHeight) = 641

C10_Witness ==
    /\ last.op = "flush_screen" /\ last.res = "Ok" /\ Sent(last.usb) = 1
    /\ \E i \in 1..screen_area : keyboard.frame_buffer[i]

Redraws(m) == IF m \in {"DeviceArrived", "RefreshScreen"} THEN 1 ELSE 0

C6_WorkerTerminatesOnShutdown ==
    (program = "manager" /\ ext_senders = 0) ~> (worker # "running")

\* C7: a redraw that fails never ends the manager: the worker is still in its
\* loop after it, and it leaves the loop only when recv returns an error.
C7_FailedRedrawKeepsWorker ==
    /\ (redraw.ctx = "worker" /\ redraw.res # "Ok") => worker = "running"
    /\ (program = "manager" /\ worker # "running") => worker = "exited"

\* What a redraw did to the USB devices, from the stage it reached.
Performed(r) ==
    (IF r.stage # "none" THEN {"enumerate"} ELSE {})
      \cup (IF r.stage \in {"text", "str_width", "line", "flush"} THEN {"draw"} ELSE {})
      \cup (IF r.stage = "flush" THEN {"open"} ELSE {})
      \cup (IF r.sent > 0 THEN {"transfer"} ELSE {})

\* C8: a hotplug callback only posts its message: it never enumerates or
\* opens a device, draws into a frame buffer or issues a control transfer.
C8_CallbackOnlyPosts ==
    redraw.ctx = "callback" => Performed(redraw) = {}

\* The readable entries of a device list that carry the target's identifiers.
ReadableMatches(devs) ==
    {i \in 1..Len(devs) :
        devs[i].readable /\ devs[i].vendor = 4152 /\ devs[i].product = 5652}

\* C11: KeyboardDevice::new over a device list returns the first entry whose
\* descriptor is readable and has the target's vendor and product; entries
\* whose descriptor cannot be read are skipped and never make it fail; when
\* no readable entry matches it fails with the not-found error.
C11_DeviceMatching ==
    (resolved.op = "new" /\ resolved.list_ok) =>
        IF ReadableMatches(devices) # {}
        THEN /\ resolved.res = "Ok"
             /\ resolved.dev \in ReadableMatches(devices)
             /\ \A j \in ReadableMatches(devices) : resolved.dev <= j
        ELSE /\ resolved.res = "Err"
             /\ resolved.error = "Could not find keyboard"

C11_Witness ==
    /\ resolved.op = "new" /\ resolved.list_ok
    /\ Len(devices) = 3 /\ resolved.res = "Ok" /\ resolved.dev = 3
    /\ ~devices[1].readable /\ devices[1].vendor = 4152 /\ devices[1].product = 5652
    /\ devices[2].readable /\ devices[2].vendor = 5652 /\ devices[2].product = 4152

\* C12: whenever write_control reports fewer bytes written than the payload
\* holds, send returns an error, and flush_screen with it.
C12_ShortWriteIsError ==
    \A t \in Transfers(last.usb) :
        (last.usb[t].ret >= 0 /\ last.usb[t].ret < Len(last.usb[t].buf))
            => last.res = "Err"

C12_Witness ==
    /\ last.op = "flush_screen" /\ last.res = "Err"
    /\ \E t \in Transfers(last.usb) :
          last.usb[t].ret > 0 /\ last.usb[t].ret = Len(last.usb[t].buf) - 1

\* C13: a flush_screen that fails, at whatever step, leaves the frame buffer
\* as it was and the dirty flag true, and a flush_screen that follows a failed
\* one sends again, starting by opening the device.
C13_FailedFlushKeepsDirty ==
    [][/\ (last'.op = "flush_screen" /\ last'.res = "Err")
            => (keyboard'.frame_buffer = keyboard.frame_buffer
                  /\ keyboard'.screen_dirty)
       /\ (last.op = "flush_screen" /\ last.res = "Err" /\ last'.op = "flush_screen")
            => (last'.usb # <<>> /\ last'.usb[1].call = "open")]_vars

C13_Witness ==
    /\ prev.op = "flush_screen" /\ prev.res = "Err" /\ prev.sent = 1
    /\ last.op = "flush_screen" /\ last.res = "Ok" /\ Sent(last.usb) = 1
    /\ \E i \in 1..screen_area : keyboard.frame_buffer[i]

\* The position of a call in a log of USB calls, 0 when it is not there.
Position(usb, name, c, i) ==
    IF \E k \in 1..Len(usb) : usb[k].call = name /\ usb[k].cfg = c /\ usb[k].iface = i
    THEN CHOOSE k \in 1..Len(usb) :
            usb[k].call = name /\ usb[k].cfg = c /\ usb[k].iface = i
    ELSE 0

\* C14: a control transfer is the last call of its send and comes after a
\* successful open, a successful set_auto_detach_kernel_driver and the
\* successful claim of every interface 0..n-1 of every configuration the
\* device reports; when a call before it fails, no transfer is issued and the
\* send returns the error.
C14_SendOrdering ==
    /\ \A t \in Transfers(last.usb) :
          /\ t = Len(last.usb)
          /\ \A k \in 1..(t - 1) : last.usb[k].ret >= 0
          /\ Position(last.usb, "open", 0, 0) = 1
          /\ Position(last.usb, "set_auto_detach_kernel_driver", 0, 0) = 2
          /\ Position(last.usb, "device_descriptor", 0, 0) = 3
          /\ \A c \in 0..(last.usb[3].ret - 1) :
                LET d == Position(last.usb, "config_descriptor", c, 0) IN
                /\ d > 3
                /\ \A i \in 0..(last.usb[d].ret - 1) :
                      LET k == Position(last.usb, "claim_interface", c, i) IN
                      k > d /\ k < t
    /\ (\E k \in 1..Len(last.usb) :
            last.usb[k].call # "write_control" /\ last.usb[k].ret < 0)
          => (Transfers(last.usb) = {} /\ last.res = "Err")

C14_Witness ==
    /\ prev.op = "flush_screen" /\ prev.res = "Err" /\ prev.sent = 0
    /\ last.op = "flush_screen" /\ last.res = "Ok" /\ Sent(last.usb) = 1
    /\ last.usb[3].ret = 2
    /\ Position(last.usb, "claim_interface", 0, 1) > 0
    /\ Position(last.usb, "claim_interface", 1, 0) > 0

\* C15: every redraw that touches the USB devices or a frame buffer
\* (enumeration, device open, drawing, control transfer) is run by the
\* manager's worker thread, one at a time, and never by the thread that runs
\* the hotplug callbacks.
C15_RedrawsOnWorkerOnly ==
    Performed(redraw) # {} => redraw.ctx = "worker"

\* C16: every message sent on the channel is eventually received and handled:
\* the i-th message sent becomes the i-th message handled, for every i.
C16_NoMessageLost ==
    \A i \in 1..MaxSent : (Len(sent) >= i) ~> (Len(handled) >= i)

\* C17: every registered hotplug watcher has the target's vendor identifier
\* as the vendor of its filter and the target's product identifier as the
\* product, so that it is invoked for the target's pair and for no other.
C17_WatcherFilter ==
    \A w \in registered :
        /\ FilterOf(w) = [vendor |-> 4152, product |-> 5652]
        /\ \A d \in UsbDevices :
              Matches(FilterOf(w), d) <=> (d.vendor = 4152 /\ d.product = 5652)

\* C18: the frame buffer of a handle always holds exactly width*height bits,
\* and an in-range draw_pixel never returns the index-out-of-bounds error.
C18_BufferLength ==
    /\ Len(keyboard.frame_buffer) = Width * Height
    /\ (last.op = "draw_pixel" /\ InRange(last.x, last.y)) => last.res = "Ok"

C18_Witness ==
    /\ last.op = "draw_pixel" /\ last.x = Width - 1 /\ last.y = Height - 1
    /\ last.color /\ last.res = "Ok"
    /\ keyboard.frame_buffer[Width * Height] /\ ~keyboard.screen_dirty

\* The frame buffer a redraw ends with when it starts from an all-zero one:
\* the text of n characters in row 0 and, in the manager, the underline in
\* the row below it.
Drawn(ctx, n) ==
    [p \in 1..(Width * Height) |->
        LET x == (p - 1) % Width
            y == (p - 1) \div Width
        IN  (y = 0 /\ x < n) \/ (ctx = "worker" /\ y = 1 /\ x <= n)]

\* C19 as stated: every redraw that reaches flush_screen issues exactly one
\* control transfer.
C19_RedrawIssuesOneTransfer ==
    redraw.stage = "flush" => redraw.sent = 1

\* C19, amended: a handle is all-zero and dirty when new, so every redraw
\* that reaches flush_screen calls send, whatever was drawn: it issues at
\* most one control transfer, exactly one when the flush succeeds, and none
\* only when a call before the transfer failed; the frame buffer it ends with
\* holds what this redraw drew and nothing of an earlier one.
C19_RedrawSendsOnce ==
    /\ redraw.stage = "hostname" =>
          /\ redraw.kb.screen_dirty
          /\ \A p \in 1..(Width * Height) : ~redraw.kb.frame_buffer[p]
    /\ redraw.stage = "flush" =>
          /\ redraw.calls >= 1
          /\ redraw.sent <= 1
          /\ redraw.res = "Ok" => (redraw.sent = 1 /\ ~redraw.kb.screen_dirty)
          /\ redraw.sent = 0 => (redraw.res = "Err" /\ redraw.kb.screen_dirty)
          /\ \E n \in 0..MaxHostLen : redraw.kb.frame_buffer = Drawn(redraw.ctx, n)

C19_Witness ==
    /\ redraw.ctx = "worker" /\ redraw.stage = "flush" /\ redraw.res = "Ok"
    /\ redraw.sent = 1 /\ redraw.kb.frame_buffer = Drawn("worker", 0)
    /\ Len(handled) = 3 /\ \A i \in 1..3 : handled[i].redraws = 1

\* C20: str_width never takes the subtraction s.len() - 1 below zero, in a
\* redraw of any hostname, the empty one included, and for a hostname of
\* len >= 1 characters it returns len*width + (len - 1)*spacing.
C20_StrWidthNoUnderflow ==
    /\ redraw.res # "Panic" /\ ~redraw.wrapped
    /\ \A len \in 1..MaxHostLen, checks \in BOOLEAN :
          /\ ~str_width(len, checks).panic
          /\ str_width(len, checks).value =
                len * Font12x16.width + (len - 1) * Font12x16.spacing

====
